---- MODULE Spec2Model ----
(***************************************************************************)
(* Historical import of a WhatsApp group into the knowledge graph          *)
(* (whatsapp-bridge/historical-import.go with the helpers of               *)
(* daily-summary-utils.go and claude.go).                                  *)
(*                                                                         *)
(* A date string "YYYY-MM-DD" is the tuple <<y, m, d>> of its three        *)
(* numeric fields; the empty string is the empty tuple.  The durable       *)
(* checkpoint store/import-progress.json is the variable file.             *)
(***************************************************************************)
EXTENDS Integers, Sequences, FiniteSets, TLC

----------------------------------------------------------------------------
(* Bounds of the model *)

\* number of calendar days the command-line dates are drawn from
MaxSpan == 2

\* largest number of messages the store returns for one day
MaxMsgs == 2

\* number of invocations of the binary in one behaviour
MaxRuns == 2

\* first calendar day of the modelled window (a leap day, so the window
\* crosses a month boundary)
FirstDay == <<2024, 2, 29>>

\* a string of the right shape that time.Parse rejects (day out of range)
Malformed == <<2024, 2, 30>>

----------------------------------------------------------------------------
(* Calendar: time.Parse("2006-01-02", s), Time.AddDate(0, 0, 1), Format *)

EmptyStr == <<>>

\* first year the day count of ParseDate starts from
BaseYear == 2023

IsLeap(y) == (y % 4 = 0) /\ ((y % 100 # 0) \/ (y % 400 = 0))

DaysIn(y, m) ==
  IF m = 2 THEN (IF IsLeap(y) THEN 29 ELSE 28)
  ELSE IF m \in {4, 6, 9, 11} THEN 30 ELSE 31

\* time.Parse accepts the string iff month and day are in range
ParseOK(s) ==
  /\ Len(s) = 3
  /\ s[1] \in 0..9999
  /\ s[2] \in 1..12
  /\ s[3] \in 1..DaysIn(s[1], s[2])

RECURSIVE DaysBeforeYear(_)
DaysBeforeYear(y) ==
  IF y <= BaseYear THEN 0
  ELSE DaysBeforeYear(y - 1) + (IF IsLeap(y - 1) THEN 366 ELSE 365)

RECURSIVE DaysBeforeMonth(_, _)
DaysBeforeMonth(y, m) ==
  IF m <= 1 THEN 0 ELSE DaysBeforeMonth(y, m - 1) + DaysIn(y, m - 1)

\* the instant a parsed date denotes, counted in days since BaseYear-01-01
ParseDate(s) == DaysBeforeYear(s[1]) + DaysBeforeMonth(s[1], s[2]) + (s[3] - 1)

RECURSIVE FormatFrom(_, _, _)
FormatFrom(y, m, n) ==
  IF m = 1 /\ n >= (IF IsLeap(y) THEN 366 ELSE 365)
    THEN FormatFrom(y + 1, 1, n - (IF IsLeap(y) THEN 366 ELSE 365))
  ELSE IF n >= DaysIn(y, m) THEN FormatFrom(y, m + 1, n - DaysIn(y, m))
  ELSE <<y, m, n + 1>>

\* Time.Format("2006-01-02") of the instant n
FormatDate(n) == FormatFrom(BaseYear, 1, n)

\* string comparison of two well-formed date strings
DateLess(a, b) ==
  \/ a[1] < b[1]
  \/ a[1] = b[1] /\ a[2] < b[2]
  \/ a[1] = b[1] /\ a[2] = b[2] /\ a[3] < b[3]

Range(s) == {s[k] : k \in 1..Len(s)}

----------------------------------------------------------------------------
(* Inputs *)

ValidDates == {FormatDate(ParseDate(FirstDay) + k) : k \in 0..(MaxSpan - 1)}

DateInputs == ValidDates \cup {Malformed, EmptyStr}

\* the wall clock's date: the last day of the window
Today == FormatDate(ParseDate(FirstDay) + MaxSpan - 1)

Groups == {"", "G1"}

None == [none |-> TRUE]
NoFile == [nofile |-> TRUE]
Partial == [partial |-> TRUE]

Flags(res, dr, sk, g, s, e, n) ==
  [resume |-> res, dryRun |-> dr, skipGraphiti |-> sk, groupJID |-> g,
   startDate |-> s, endDate |-> e, daysBack |-> n]

\* the command lines tried: every pair of date inputs as an explicit range;
\* the whole window with --skip-graphiti, with --dry-run and without a group;
\* --days-back alone and together with an explicit range (as dry runs);
\* --resume alone, with --dry-run, with leftover group and range flags, and
\* with --skip-graphiti
FlagSets ==
  {Flags(FALSE, FALSE, FALSE, "G1", s, e, 0) : s \in DateInputs, e \in DateInputs}
  \cup {Flags(FALSE, FALSE, TRUE, "G1", FirstDay, Today, 0),
        Flags(FALSE, TRUE, FALSE, "G1", FirstDay, Today, 0),
        Flags(FALSE, FALSE, FALSE, "", FirstDay, Today, 0)}
  \cup {Flags(FALSE, TRUE, FALSE, "G1", EmptyStr, EmptyStr, n) : n \in 1..(MaxSpan - 1)}
  \cup {Flags(FALSE, TRUE, FALSE, "G1", Today, Today, n) : n \in 1..(MaxSpan - 1)}
  \cup {Flags(TRUE, FALSE, FALSE, "", EmptyStr, EmptyStr, 0),
        Flags(TRUE, TRUE, FALSE, "", EmptyStr, EmptyStr, 0),
        Flags(TRUE, TRUE, FALSE, "G1", Today, Today, 0),
        Flags(TRUE, FALSE, TRUE, "", EmptyStr, EmptyStr, 0)}

\* the store holds no message for a day, or MaxMsgs of them
MsgCounts == {0, MaxMsgs}

----------------------------------------------------------------------------
(* historical-import.go: pure helpers *)

validateParameters(f) ==
  IF f.resume THEN "ok"
  ELSE IF f.groupJID = "" THEN "group-jid is required"
  ELSE IF f.daysBack > 0 THEN "ok"
  ELSE IF f.startDate = EmptyStr \/ f.endDate = EmptyStr
    THEN "either --days-back OR both dates must be provided"
  ELSE IF ~ParseOK(f.startDate) THEN "invalid start-date format"
  ELSE IF ~ParseOK(f.endDate) THEN "invalid end-date format"
  ELSE "ok"

EmptyMap == [x \in {} |-> ""]

\* a fresh ImportProgress (lines 241-257); now is the run's start time
NewProgress(f, now) ==
  [StartDate |-> IF f.daysBack > 0
                   THEN FormatDate(ParseDate(Today) - f.daysBack)
                   ELSE f.startDate,
   EndDate |-> IF f.daysBack > 0 THEN Today ELSE f.endDate,
   GroupJID |-> f.groupJID,
   LastProcessedDate |-> EmptyStr,
   ProcessedDates |-> <<>>,
   FailedDates |-> EmptyMap,
   TotalMessages |-> 0,
   TotalEpisodes |-> 0,
   StartTime |-> now]

\* variant: a checkpoint that is missing or unreadable is replaced by a
\* fresh one
loadOrCreateProgress_freshOnMissing(f, fl, now) ==
  IF f.resume /\ fl \notin {NoFile, Partial}
    THEN [err |-> "", progress |-> fl]
    ELSE [err |-> "", progress |-> NewProgress(f, now)]

\* variant: a fresh run takes over the lists and totals of a checkpoint it
\* finds
loadOrCreateProgress_reusesFile(f, fl, now) ==
  IF f.resume
    THEN IF fl = NoFile
           THEN [err |-> "failed to read progress file for resume", progress |-> None]
         ELSE IF fl = Partial
           THEN [err |-> "failed to parse progress file", progress |-> None]
         ELSE [err |-> "", progress |-> fl]
    ELSE IF fl \in {NoFile, Partial}
      THEN [err |-> "", progress |-> NewProgress(f, now)]
    ELSE [err |-> "",
          progress |-> [NewProgress(f, now) EXCEPT
                          !.ProcessedDates = fl.ProcessedDates,
                          !.LastProcessedDate = fl.LastProcessedDate,
                          !.FailedDates = fl.FailedDates,
                          !.TotalMessages = fl.TotalMessages,
                          !.TotalEpisodes = fl.TotalEpisodes]]

\* variant: on --resume a group or a range given on the command line
\* replaces the one of the checkpoint
loadOrCreateProgress_flagsOverride(f, fl, now) ==
  IF f.resume
    THEN IF fl = NoFile
           THEN [err |-> "failed to read progress file for resume", progress |-> None]
         ELSE IF fl = Partial
           THEN [err |-> "failed to parse progress file", progress |-> None]
         ELSE [err |-> "",
               progress |->
                 [fl EXCEPT !.GroupJID = IF f.groupJID # "" THEN f.groupJID ELSE @,
                            !.StartDate = IF f.startDate # EmptyStr THEN f.startDate ELSE @,
                            !.EndDate = IF f.endDate # EmptyStr THEN f.endDate ELSE @]]
    ELSE [err |-> "", progress |-> NewProgress(f, now)]

loadOrCreateProgress(f, fl, now) ==
  IF f.resume
    THEN IF fl = NoFile
           THEN [err |-> "failed to read progress file for resume", progress |-> None]
         ELSE IF fl = Partial
           THEN [err |-> "failed to parse progress file", progress |-> None]
         ELSE [err |-> "", progress |-> fl]
    ELSE [err |-> "", progress |-> NewProgress(f, now)]

\* variant: the loop runs one day past the end date
RECURSIVE DatesFrom_pastEnd(_, _)
DatesFrom_pastEnd(d, end) ==
  IF d > end + 1 THEN <<>>
  ELSE <<FormatDate(d)>> \o DatesFrom_pastEnd(d + 1, end)

\* variant: the loop stops before the end date
RECURSIVE DatesFrom_exclusive(_, _)
DatesFrom_exclusive(d, end) ==
  IF d >= end THEN <<>>
  ELSE <<FormatDate(d)>> \o DatesFrom_exclusive(d + 1, end)

\* lines 291-294: the loop from start to end, one day at a time
RECURSIVE DatesFrom(_, _)
DatesFrom(d, end) ==
  IF d > end THEN <<>> ELSE <<FormatDate(d)>> \o DatesFrom(d + 1, end)

\* variant: the order of the two dates is not checked
generateDateRange_noOrderCheck(startStr, endStr) ==
  IF ~ParseOK(startStr) THEN [err |-> "invalid start date", dates |-> <<>>]
  ELSE IF ~ParseOK(endStr) THEN [err |-> "invalid end date", dates |-> <<>>]
  ELSE [err |-> "", dates |-> DatesFrom(ParseDate(startStr), ParseDate(endStr))]

generateDateRange(startStr, endStr) ==
  IF ~ParseOK(startStr) THEN [err |-> "invalid start date", dates |-> <<>>]
  ELSE IF ~ParseOK(endStr) THEN [err |-> "invalid end date", dates |-> <<>>]
  ELSE IF ParseDate(startStr) > ParseDate(endStr)
    THEN [err |-> "start date cannot be after end date", dates |-> <<>>]
  ELSE [err |-> "", dates |-> DatesFrom(ParseDate(startStr), ParseDate(endStr))]

\* variant: the dates that are left come newest first
filterProcessedDates_newestFirst(allDates, processedDates) ==
  LET kept == SelectSeq(allDates, LAMBDA d : d \notin Range(processedDates))
  IN [k \in 1..Len(kept) |-> kept[Len(kept) + 1 - k]]

\* variant: only the date processed last is filtered out
filterProcessedDates_lastOnly(allDates, processedDates) ==
  SelectSeq(allDates,
            LAMBDA d : processedDates = <<>>
                         \/ d # processedDates[Len(processedDates)])

\* variant: nothing is filtered out
filterProcessedDates_keepAll(allDates, processedDates) == allDates

filterProcessedDates(allDates, processedDates) ==
  SelectSeq(allDates, LAMBDA d : d \notin Range(processedDates))

\* FailedDates is a map: the function's domain is its key set
MapSet(m, k, v) == [x \in (DOMAIN m) \cup {k} |-> IF x = k THEN v ELSE m[x]]

\* variant: a day that failed is put on the processed list as well
RecordFailure_marksProcessed(p, dateStr, msg) ==
  [p EXCEPT !.FailedDates = MapSet(p.FailedDates, dateStr, msg),
            !.ProcessedDates = Append(p.ProcessedDates, dateStr)]

\* variant: the failed-map is replaced by the one new entry
RecordFailure_clearsOthers(p, dateStr, msg) ==
  [p EXCEPT !.FailedDates = MapSet(EmptyMap, dateStr, msg)]

\* variant: an entry that exists is kept
RecordFailure_keepFirst(p, dateStr, msg) ==
  IF dateStr \in DOMAIN p.FailedDates
    THEN p
    ELSE [p EXCEPT !.FailedDates = MapSet(p.FailedDates, dateStr, msg)]

\* variant: the failure is logged only
RecordFailure_logOnly(p, dateStr, msg) == p

\* main, lines 145-147: the day returned an error
RecordFailure(p, dateStr, msg) ==
  [p EXCEPT !.FailedDates = MapSet(p.FailedDates, dateStr, msg)]

\* variant: the episode total is left as it is
RecordSuccess_noEpisodes(p, dateStr, st) ==
  [p EXCEPT !.ProcessedDates = Append(p.ProcessedDates, dateStr),
            !.LastProcessedDate = dateStr,
            !.TotalMessages = p.TotalMessages + st.MessagesFound]

\* variant: the message count is added to both totals
RecordSuccess_messagesAsEpisodes(p, dateStr, st) ==
  [p EXCEPT !.ProcessedDates = Append(p.ProcessedDates, dateStr),
            !.LastProcessedDate = dateStr,
            !.TotalMessages = p.TotalMessages + st.MessagesFound,
            !.TotalEpisodes = p.TotalEpisodes + st.MessagesFound]

\* variant: the last-processed date is the latest date processed so far
RecordSuccess_latestDate(p, dateStr, st) ==
  [p EXCEPT !.ProcessedDates = Append(p.ProcessedDates, dateStr),
            !.LastProcessedDate = IF p.LastProcessedDate # EmptyStr
                                     /\ DateLess(dateStr, p.LastProcessedDate)
                                    THEN p.LastProcessedDate
                                    ELSE dateStr,
            !.TotalMessages = p.TotalMessages + st.MessagesFound,
            !.TotalEpisodes = p.TotalEpisodes + st.EpisodesAdded]

\* variant: the totals are updated, the date is not appended
RecordSuccess_noAppend(p, dateStr, st) ==
  [p EXCEPT !.TotalMessages = p.TotalMessages + st.MessagesFound,
            !.TotalEpisodes = p.TotalEpisodes + st.EpisodesAdded]

\* main, lines 148-155: the day returned stats
RecordSuccess(p, dateStr, st) ==
  [p EXCEPT !.ProcessedDates = Append(p.ProcessedDates, dateStr),
            !.LastProcessedDate = dateStr,
            !.TotalMessages = p.TotalMessages + st.MessagesFound,
            !.TotalEpisodes = p.TotalEpisodes + st.EpisodesAdded]

\* variant: a day without segmentation counts one topic and one episode
NewStats_oneTopic(k) == [MessagesFound |-> k, TopicsCreated |-> 1, EpisodesAdded |-> 1]

\* processSingleDay, lines 337-340: the stats before segmentation
NewStats(k) == [MessagesFound |-> k, TopicsCreated |-> 0, EpisodesAdded |-> 0]

----------------------------------------------------------------------------
(* claude.go: the gateway client *)

\* what the HTTP exchange can produce: no response, an undecodable body, or
\* strings.Join(tools, ","): a text is a sequence of tokens, "," the comma
RECURSIVE Join(_)
Join(tools) ==
  IF tools = <<>> THEN <<>>
  ELSE IF Len(tools) = 1 THEN <<tools[1]>>
  ELSE <<tools[1], ",">> \o Join(Tail(tools))

\* callClaudeServer, lines 50-55: the value sent after --allowedTools; env is
\* the value of CLAUDE_ALLOWED_TOOLS
allowedTools(tools, env) ==
  IF Len(tools) > 0 THEN Join(tools) ELSE env

\* a ClaudeResponse with its is_error flag and result text
Reply(kind, isErr, text) == [kind |-> kind, is_error |-> isErr, result |-> text]

\* variant: the result text is returned whatever is_error says
callClaudeServer_ignoresIsError(reply) ==
  IF reply.kind = "transport" THEN [err |-> "error sending request", result |-> <<>>]
  ELSE IF reply.kind = "body" THEN [err |-> "error parsing response", result |-> <<>>]
  ELSE [err |-> "", result |-> reply.result]

\* callClaudeServer, lines 90-124: the returned (result, error) pair
callClaudeServer(reply) ==
  IF reply.kind = "transport" THEN [err |-> "error sending request", result |-> <<>>]
  ELSE IF reply.kind = "body" THEN [err |-> "error parsing response", result |-> <<>>]
  ELSE IF reply.is_error THEN [err |-> "Claude returned an error", result |-> <<>>]
  ELSE [err |-> "", result |-> reply.result]

----------------------------------------------------------------------------
(* daily-summary-utils.go: topic segmentation *)

(* A response text is a sequence of tokens: "FENCE" is ```, "json" the      *)
(* language tag, "NL" a newline, "SP" a blank, "x" any other text, and a    *)
(* payload name stands for the JSON text of that topic partition.           *)

\* decoded payloads: topic name -> message indices
Payload(name) ==
  CASE name = "P_intro" -> [t \in {"intro"} |-> <<0, 1>>]
    [] name = "P_two"   -> [t \in {"a", "b"} |-> IF t = "a" THEN <<0>> ELSE <<1>>]
    [] name = "P_oob"   -> [t \in {"a", "b"} |-> IF t = "a" THEN <<0, 9>> ELSE <<0 - 1, 7>>]
    [] name = "P_none"  -> [t \in {"a"} |-> <<5>>]
    [] name = "P_empty" -> [t \in {} |-> <<>>]
    [] name = "P_edge"  -> [t \in {"a", "b", "c"} |->
                             IF t = "a" THEN <<2, 1, 3, 0>>
                             ELSE IF t = "b" THEN <<2>> ELSE <<3, 4>>]

PayloadNames == {"P_intro", "P_two", "P_oob", "P_none", "P_empty", "P_edge"}

IsSpace(tok) == tok \in {"NL", "SP"}

\* strings.Index: the least position of a match, 0 when there is none
FirstIndex(S) == IF S = {} THEN 0 ELSE CHOOSE k \in S : \A j \in S : k <= j

RECURSIVE TrimLeft(_)
TrimLeft(text) ==
  IF text # <<>> /\ IsSpace(Head(text)) THEN TrimLeft(Tail(text)) ELSE text

RECURSIVE TrimRight(_)
TrimRight(text) ==
  IF text # <<>> /\ IsSpace(text[Len(text)])
    THEN TrimRight(SubSeq(text, 1, Len(text) - 1))
    ELSE text

TrimSpace(text) == TrimRight(TrimLeft(text))

extractJSONFromMarkdown(response) ==
  LET Pos == 1..Len(response)
      tagged == FirstIndex({k \in Pos : /\ response[k] = "FENCE"
                                        /\ k < Len(response)
                                        /\ response[k + 1] = "json"})
      jsonStart == IF tagged # 0 THEN tagged
                   ELSE FirstIndex({k \in Pos : response[k] = "FENCE"})
      nl == FirstIndex({k \in Pos : k >= jsonStart /\ response[k] = "NL"})
      contentStart == nl + 1
      jsonEnd == FirstIndex({k \in Pos : k >= contentStart /\ response[k] = "FENCE"})
  IN IF jsonStart = 0 THEN response
     ELSE IF nl = 0 THEN response
     ELSE IF jsonEnd = 0
       THEN TrimSpace(SubSeq(response, contentStart, Len(response)))
     ELSE TrimSpace(SubSeq(response, contentStart, jsonEnd - 1))

\* json.Unmarshal into map[string]TopicSegment: blanks around the value are
\* skipped, anything else than one JSON object is an error
jsonUnmarshal(content) ==
  LET body == TrimSpace(content)
  IN IF Len(body) = 1 /\ body[1] \in PayloadNames
       THEN [err |-> "", segments |-> Payload(body[1])]
       ELSE [err |-> "failed to parse topic segmentation JSON", segments |-> EmptyMap]

\* variant: the index equal to the message count is accepted
ValidIndices_inclusive(idx, k) == SelectSeq(idx, LAMBDA n : n >= 0 /\ n <= k)

\* lines 288-292: the indices of one segment that address a message
ValidIndices(idx, k) == SelectSeq(idx, LAMBDA n : n >= 0 /\ n < k)

\* lines 285-296: topic -> messages (by index), empty topics omitted
ConvertSegments(segments, k) ==
  LET kept == {t \in DOMAIN segments : ValidIndices(segments[t], k) # <<>>}
  IN [t \in kept |-> ValidIndices(segments[t], k)]

\* segmentMessagesByTopic for a day of k messages; promptOK tells whether the
\* prompt template could be read, reply is the gateway's answer
segmentMessagesByTopic(k, promptOK, reply) ==
  IF k = 0 THEN [err |-> "", topics |-> EmptyMap]
  ELSE IF ~promptOK
    THEN [err |-> "failed to load topic segmentation prompt", topics |-> EmptyMap]
  ELSE LET call == callClaudeServer(reply)
           parsed == jsonUnmarshal(extractJSONFromMarkdown(call.result))
       IN IF call.err # ""
            THEN [err |-> "failed to get topic segmentation from Claude",
                  topics |-> EmptyMap]
          ELSE IF parsed.err # ""
            THEN [err |-> parsed.err, topics |-> EmptyMap]
          ELSE [err |-> "", topics |-> ConvertSegments(parsed.segments, k)]

\* variant: no error whatever the count
addEpisodesResult_neverFails(successCount) == ""

\* addEpisodesToGraphiti, lines 390-394: the error returned after the loop
addEpisodesResult(successCount) ==
  IF successCount = 0 THEN "failed to add any episodes to Graphiti" ELSE ""

\* fmt.Errorf("<stage>: %v", err) of processSingleDay; NoErr is a nil error
Wrap(stage, inner) == <<stage, inner>>

NoErr == <<>>

FetchErrors == {"failed to query messages"}

\* the tools argument of callClaudeServer: none for the segmentation call
\* (line 265), "mcp__graphiti" for an episode (line 380)
NoTools == <<>>
GraphTools == <<"mcp__graphiti">>

\* gateway answers tried for a segmentation call
SegTexts ==
  { <<"P_two">>,
    <<"FENCE", "json", "NL", "P_two", "NL", "FENCE">>,
    <<"FENCE", "json", "SP", "P_two", "SP", "FENCE">>,
    <<"FENCE", "NL", "P_two", "NL", "FENCE">>,
    <<"x", "NL", "FENCE", "json", "NL", "P_oob", "NL", "FENCE", "NL", "x">>,
    <<"P_none">>,
    <<"P_empty">>,
    <<"x", "SP", "x">> }

SegReplies ==
  {Reply("transport", FALSE, <<>>), Reply("body", FALSE, <<>>),
   Reply("response", TRUE, <<"x">>)}
  \cup {Reply("response", FALSE, t) : t \in SegTexts}

\* gateway answers tried for an ingestion call
IngestReplies ==
  {Reply("transport", FALSE, <<>>), Reply("body", FALSE, <<>>),
   Reply("response", TRUE, <<"x">>), Reply("response", FALSE, <<"x">>)}

----------------------------------------------------------------------------
(* State *)

VARIABLES
  file,           \* store/import-progress.json: NoFile, Partial or a progress
  runs,           \* invocations of the binary so far
  flags,          \* command-line flags of the current invocation
  pc,             \* position of the main goroutine; "idle": no process
  exit,           \* how the last invocation ended, "running" while it runs
  progress,       \* the in-memory ImportProgress
  dates,          \* the date list of the loop at line 137
  i,              \* 1-based loop index
  ctxDone,        \* ctx.Done() is closed
  listener,       \* the goroutine of setupGracefulShutdown
  msgCount,       \* len(messages) of the day in flight
  topicSegments,  \* topic -> message indices of the day in flight
  pending,        \* topics addEpisodesToGraphiti has not reached yet
  successCount,   \* successCount of addEpisodesToGraphiti
  stats,          \* stats of processSingleDay at line 144 (None for nil)
  calls,          \* tools argument of each callClaudeServer call of the day
  dayErr,         \* err of processSingleDay at line 144 (NoErr for nil)
  saveErr,        \* err of the last saveProgress of this run; "none" before
  progress0,      \* history: the progress the run started from
  attempted,      \* history: dates processSingleDay was called for in this run
  observedAt,     \* history: loop index at which ctx.Done() was first taken
  sigDate,        \* history: the date in flight when the signal arrived
  ledger,         \* history: date -> stats of the dates recorded as processed
  fileLedger,     \* history: the ledger as of the snapshot in the file
  fnIn,           \* arguments of a helper called on its own (None in a run)
  fnOut           \* what that call returned (None before it returns)

runVars == <<file, runs, flags, pc, exit, progress, dates, i, ctxDone,
             listener, msgCount, topicSegments, pending, successCount, stats,
             calls, dayErr, saveErr, progress0, attempted, observedAt, sigDate,
             ledger, fileLedger>>

vars == <<runVars, fnIn, fnOut>>

dayVars == <<msgCount, topicSegments, pending, successCount, stats, calls>>

fnVars == <<fnIn, fnOut>>

InFlight == {"fetch", "segment", "ingest"}

\* no process has run yet
InitRun ==
  /\ file = NoFile
  /\ runs = 0
  /\ flags = None
  /\ pc = "idle"
  /\ exit = "none"
  /\ progress = None
  /\ dates = <<>>
  /\ i = 0
  /\ ctxDone = FALSE
  /\ listener = "off"
  /\ msgCount = 0
  /\ topicSegments = EmptyMap
  /\ pending = {}
  /\ successCount = 0
  /\ stats = None
  /\ calls = <<>>
  /\ dayErr = NoErr
  /\ saveErr = "none"
  /\ progress0 = None
  /\ attempted = <<>>
  /\ observedAt = 0
  /\ sigDate = EmptyStr
  /\ ledger = EmptyMap
  /\ fileLedger = EmptyMap

Init ==
  /\ InitRun
  /\ fnIn = None
  /\ fnOut = None

----------------------------------------------------------------------------
(* main: start-up, lines 56-133 *)

\* os.Exit or return from main: the run is over, its outcome is known
Stopped(how) ==
  /\ pc' = "exited"
  /\ exit' = how
  /\ listener' = "off"
  /\ msgCount' = 0
  /\ topicSegments' = EmptyMap
  /\ pending' = {}
  /\ successCount' = 0
  /\ stats' = None
  /\ calls' = <<>>

\* no process: nothing but the file and the count of runs is left
Gone ==
  /\ pc' = "idle"
  /\ exit' = "none"
  /\ flags' = None
  /\ progress' = None
  /\ dates' = <<>>
  /\ i' = 0
  /\ ctxDone' = FALSE
  /\ listener' = "off"
  /\ msgCount' = 0
  /\ topicSegments' = EmptyMap
  /\ pending' = {}
  /\ successCount' = 0
  /\ stats' = None
  /\ calls' = <<>>
  /\ dayErr' = NoErr
  /\ saveErr' = "none"
  /\ progress0' = None
  /\ attempted' = <<>>
  /\ observedAt' = 0
  /\ sigDate' = EmptyStr
  /\ ledger' = EmptyMap

\* variant: --dry-run is not looked at
StartRun_ignoresDryRun(f) ==
  /\ pc = "idle"
  /\ runs < MaxRuns
  /\ runs' = runs + 1
  /\ flags' = f
  /\ UNCHANGED <<file, ctxDone, dayErr, saveErr, attempted, observedAt, sigDate,
                 fileLedger, fnVars>>
  /\ LET v == validateParameters(f)
         l == loadOrCreateProgress(f, file, runs + 1)
         g == generateDateRange(l.progress.StartDate, l.progress.EndDate)
         ds == IF f.resume
                 THEN filterProcessedDates(g.dates, l.progress.ProcessedDates)
                 ELSE g.dates
     IN IF v # "ok" \/ l.err # ""
          THEN /\ Stopped("error")
               /\ progress' = None /\ progress0' = None
               /\ ledger' = EmptyMap
               /\ dates' = <<>> /\ i' = 0
        ELSE IF g.err # ""
          THEN /\ Stopped("error")
               /\ progress' = l.progress /\ progress0' = l.progress
               /\ ledger' = (IF f.resume THEN fileLedger ELSE EmptyMap)
               /\ dates' = <<>> /\ i' = 0
        ELSE IF ds = <<>>
          THEN /\ Stopped("ok")
               /\ progress' = l.progress /\ progress0' = l.progress
               /\ ledger' = (IF f.resume THEN fileLedger ELSE EmptyMap)
               /\ dates' = ds /\ i' = 0
        ELSE /\ pc' = "loop"
             /\ exit' = "running"
             /\ listener' = "waiting"
             /\ progress' = l.progress /\ progress0' = l.progress
             /\ ledger' = (IF f.resume THEN fileLedger ELSE EmptyMap)
             /\ dates' = ds /\ i' = 1
             /\ UNCHANGED dayVars

StartRun(f) ==
  /\ pc = "idle"
  /\ runs < MaxRuns
  /\ runs' = runs + 1
  /\ flags' = f
  /\ UNCHANGED <<file, ctxDone, dayErr, saveErr, attempted, observedAt, sigDate,
                 fileLedger, fnVars>>
  /\ LET v == validateParameters(f)
         l == loadOrCreateProgress(f, file, runs + 1)
         g == generateDateRange(l.progress.StartDate, l.progress.EndDate)
         ds == IF f.resume
                 THEN filterProcessedDates(g.dates, l.progress.ProcessedDates)
                 ELSE g.dates
     IN IF v # "ok" \/ l.err # ""
          THEN /\ Stopped("error")
               /\ progress' = None /\ progress0' = None
               /\ ledger' = EmptyMap
               /\ dates' = <<>> /\ i' = 0
        ELSE IF g.err # ""
          THEN /\ Stopped("error")
               /\ progress' = l.progress /\ progress0' = l.progress
               /\ ledger' = (IF f.resume THEN fileLedger ELSE EmptyMap)
               /\ dates' = <<>> /\ i' = 0
        ELSE IF ds = <<>> \/ f.dryRun
          THEN /\ Stopped("ok")
               /\ progress' = l.progress /\ progress0' = l.progress
               /\ ledger' = (IF f.resume THEN fileLedger ELSE EmptyMap)
               /\ dates' = ds /\ i' = 0
        ELSE /\ pc' = "loop"
             /\ exit' = "running"
             /\ listener' = "waiting"
             /\ progress' = l.progress /\ progress0' = l.progress
             /\ ledger' = (IF f.resume THEN fileLedger ELSE EmptyMap)
             /\ dates' = ds /\ i' = 1
             /\ UNCHANGED dayVars

----------------------------------------------------------------------------
(* setupGracefulShutdown, lines 378-391 *)

\* SIGINT or SIGTERM is delivered to the channel c
Signal ==
  /\ listener = "waiting"
  /\ listener' = "signalled"
  /\ sigDate' = IF pc \in InFlight THEN dates[i] ELSE sigDate
  /\ UNCHANGED <<file, runs, flags, pc, exit, progress, dates, i, ctxDone,
                 dayVars, dayErr, saveErr, progress0, attempted, observedAt,
                 ledger, fileLedger, fnVars>>

\* variant: the goroutine also writes the progress to the file
ListenerCancel_savesProgress ==
  /\ listener = "signalled"
  /\ listener' = "cancelled"
  /\ ctxDone' = TRUE
  /\ file' = (IF progress = None THEN file ELSE progress)
  /\ fileLedger' = (IF progress = None THEN fileLedger ELSE ledger)
  /\ UNCHANGED <<runs, flags, pc, exit, progress, dates, i,
                 dayVars, dayErr, saveErr, progress0, attempted, observedAt,
                 sigDate, ledger, fnVars>>

\* the goroutine receives from c and calls cancel()
ListenerCancel ==
  /\ listener = "signalled"
  /\ listener' = "cancelled"
  /\ ctxDone' = TRUE
  /\ UNCHANGED <<file, runs, flags, pc, exit, progress, dates, i,
                 dayVars, dayErr, saveErr, progress0, attempted, observedAt,
                 sigDate, ledger, fileLedger, fnVars>>

----------------------------------------------------------------------------
(* main: the loop over the dates, lines 137-176 *)

\* variant: the default branch runs whatever the context
TakesDefault_always(done) == TRUE

\* the select at lines 138-142: the default branch runs only while
\* ctx.Done() is not ready
TakesDefault(done) == ~done

\* variant: the loop does not move on to the next date
NextIteration_stays ==
  /\ pc' = "loop"
  /\ UNCHANGED <<i, exit, listener, dayVars>>

\* end of one iteration: the next one, or the summary and return
NextIteration ==
  IF i < Len(dates)
    THEN /\ pc' = "loop" /\ i' = i + 1
         /\ UNCHANGED <<exit, listener, dayVars>>
    ELSE /\ Stopped("ok") /\ UNCHANGED i

\* lines 139-141: cancellation seen; break leaves the select only
LoopSkip ==
  /\ pc = "loop"
  /\ ~TakesDefault(ctxDone)
  /\ observedAt' = IF observedAt = 0 THEN i ELSE observedAt
  /\ NextIteration
  /\ UNCHANGED <<file, runs, flags, progress, dates, ctxDone, dayErr, saveErr,
                 progress0, attempted, sigDate, ledger, fileLedger, fnVars>>

\* line 144: processSingleDay is called for dates[i]
LoopStart ==
  /\ pc = "loop"
  /\ TakesDefault(ctxDone)
  /\ pc' = "fetch"
  /\ attempted' = Append(attempted, dates[i])
  /\ dayErr' = NoErr
  /\ UNCHANGED <<file, runs, flags, exit, progress, dates, i, ctxDone,
                 listener, dayVars, saveErr, progress0, observedAt, sigDate,
                 ledger, fileLedger, fnVars>>

\* processSingleDay returned an error: lines 145-147
DayFailed(msg) ==
  /\ dayErr' = msg
  /\ stats' = None
  /\ progress' = RecordFailure(progress, dates[i], msg)
  /\ pc' = "save"
  /\ UNCHANGED ledger

\* processSingleDay returned stats: lines 148-155
DaySucceeded(st) ==
  /\ dayErr' = NoErr
  /\ stats' = st
  /\ progress' = RecordSuccess(progress, dates[i], st)
  /\ pc' = "save"
  /\ ledger' = MapSet(ledger, dates[i], st)

\* processSingleDay, lines 331-355: the query of the message store
Fetch ==
  /\ pc = "fetch"
  /\ \/ \E e \in FetchErrors :
          /\ DayFailed(Wrap("failed to get messages", e))
          /\ UNCHANGED <<msgCount, topicSegments, pending, successCount, calls>>
     \/ \E k \in MsgCounts :
          /\ msgCount' = k
          /\ UNCHANGED <<topicSegments, pending, successCount, calls>>
          /\ IF k = 0 \/ flags.skipGraphiti
               THEN DaySucceeded(NewStats(k))
               ELSE /\ pc' = "segment"
                    /\ UNCHANGED <<progress, dayErr, stats, ledger>>
  /\ UNCHANGED <<file, runs, flags, exit, dates, i, ctxDone, listener,
                 saveErr, progress0, attempted, observedAt, sigDate,
                 fileLedger, fnVars>>

\* processSingleDay, lines 357-370: segmentation; with no topic left
\* addEpisodesToGraphiti returns nil at once (lines 346-349)
Segment ==
  /\ pc = "segment"
  /\ \E promptOK \in BOOLEAN, reply \in SegReplies :
       LET r == segmentMessagesByTopic(msgCount, promptOK, reply)
       IN /\ calls' = (IF promptOK THEN Append(calls, NoTools) ELSE calls)
          /\ IF r.err # ""
               THEN /\ DayFailed(Wrap("failed to segment messages by topic", r.err))
                    /\ UNCHANGED <<msgCount, topicSegments, pending, successCount>>
             ELSE /\ topicSegments' = r.topics
                  /\ pending' = DOMAIN r.topics
                  /\ UNCHANGED <<msgCount, successCount>>
                  /\ IF DOMAIN r.topics = {}
                       THEN DaySucceeded(NewStats(msgCount))
                       ELSE /\ pc' = "ingest"
                            /\ UNCHANGED <<progress, dayErr, stats, ledger>>
  /\ UNCHANGED <<file, runs, flags, exit, dates, i, ctxDone, listener,
                 saveErr, progress0, attempted, observedAt, sigDate,
                 fileLedger, fnVars>>

\* variant: the first topic that fails ends the loop and fails the day
Ingest_stopsAtFailure ==
  /\ pc = "ingest"
  /\ \E t \in pending, promptOK \in BOOLEAN, reply \in IngestReplies :
       LET ok == promptOK /\ callClaudeServer(reply).err = ""
           n == Cardinality(DOMAIN topicSegments)
       IN /\ pending' = (IF ok THEN pending \ {t} ELSE {})
          /\ successCount' = (IF ok THEN successCount + 1 ELSE successCount)
          /\ calls' = (IF promptOK THEN Append(calls, GraphTools) ELSE calls)
          /\ UNCHANGED <<msgCount, topicSegments>>
          /\ IF ~ok
               THEN DayFailed(Wrap("failed to add episodes to Graphiti",
                                   "failed to add episode"))
             ELSE IF pending \ {t} # {}
               THEN UNCHANGED <<pc, progress, dayErr, stats, ledger>>
             ELSE DaySucceeded([MessagesFound |-> msgCount,
                                TopicsCreated |-> n, EpisodesAdded |-> n])
  /\ UNCHANGED <<file, runs, flags, exit, dates, i, ctxDone, listener,
                 saveErr, progress0, attempted, observedAt, sigDate,
                 fileLedger, fnVars>>

\* addEpisodesToGraphiti, lines 352-394: one topic per step, in map order;
\* after the last one processSingleDay returns (lines 367-375)
Ingest ==
  /\ pc = "ingest"
  /\ \E t \in pending, promptOK \in BOOLEAN, reply \in IngestReplies :
       LET ok == promptOK /\ callClaudeServer(reply).err = ""
           sc == IF ok THEN successCount + 1 ELSE successCount
           n == Cardinality(DOMAIN topicSegments)
       IN /\ pending' = pending \ {t}
          /\ successCount' = sc
          /\ calls' = (IF promptOK THEN Append(calls, GraphTools) ELSE calls)
          /\ UNCHANGED <<msgCount, topicSegments>>
          /\ IF pending \ {t} # {}
               THEN UNCHANGED <<pc, progress, dayErr, stats, ledger>>
             ELSE IF addEpisodesResult(sc) # ""
               THEN DayFailed(Wrap("failed to add episodes to Graphiti",
                                   addEpisodesResult(sc)))
             ELSE DaySucceeded([MessagesFound |-> msgCount,
                                TopicsCreated |-> n, EpisodesAdded |-> n])
  /\ UNCHANGED <<file, runs, flags, exit, dates, i, ctxDone, listener,
                 saveErr, progress0, attempted, observedAt, sigDate,
                 fileLedger, fnVars>>

\* variant: nothing is written
WriteFile_skip(fl, data, outcome) == fl

\* os.MkdirAll + os.WriteFile: the snapshot replaces the file, or the
\* directory or the file cannot be opened and the file stays as it is
WriteFile(fl, data, outcome) == IF outcome = "ok" THEN data ELSE fl

SaveOutcomes == {"ok", "error"}

\* saveProgress, lines 262-274: its returned error
saveProgress(outcome) ==
  IF outcome = "ok" THEN "" ELSE "failed to create store directory"

\* lines 158-164: save, warn on error, go on
Save ==
  /\ pc = "save"
  /\ \E outcome \in SaveOutcomes :
       /\ file' = WriteFile(file, progress, outcome)
       /\ fileLedger' = WriteFile(fileLedger, ledger, outcome)
       /\ saveErr' = saveProgress(outcome)
  /\ IF i < Len(dates)
       THEN /\ pc' = "delay"
            /\ msgCount' = 0
            /\ topicSegments' = EmptyMap
            /\ pending' = {}
            /\ successCount' = 0
            /\ stats' = None
            /\ calls' = <<>>
            /\ UNCHANGED <<exit, listener, i>>
       ELSE /\ Stopped("ok") /\ UNCHANGED i
  /\ UNCHANGED <<runs, flags, progress, dates, ctxDone, dayErr, progress0,
                 attempted, observedAt, sigDate, ledger, fnVars>>

\* variant: after the wait the loop takes the same date again
DelayElapsed_sameDate ==
  /\ pc = "delay"
  /\ pc' = "loop"
  /\ UNCHANGED <<file, runs, flags, exit, progress, dates, i, ctxDone, listener,
                 dayVars, dayErr, saveErr, progress0, attempted, observedAt,
                 sigDate, ledger, fileLedger, fnVars>>

\* variant: after the wait main leaves the loop and returns
DelayElapsed_endsRun ==
  /\ pc = "delay"
  /\ Stopped("ok")
  /\ UNCHANGED <<file, runs, flags, progress, dates, i, ctxDone,
                 dayErr, saveErr, progress0, attempted, observedAt,
                 sigDate, ledger, fileLedger, fnVars>>

\* lines 167-169: the timer fires
DelayElapsed ==
  /\ pc = "delay"
  /\ pc' = "loop"
  /\ i' = i + 1
  /\ UNCHANGED <<file, runs, flags, exit, progress, dates, ctxDone, listener,
                 dayVars, dayErr, saveErr, progress0, attempted, observedAt,
                 sigDate, ledger, fileLedger, fnVars>>

\* variant: after a cancelled wait the next date is started unchecked
DelayCancelled_startsNext ==
  /\ pc = "delay"
  /\ ctxDone
  /\ pc' = "fetch"
  /\ i' = i + 1
  /\ attempted' = Append(attempted, dates[i + 1])
  /\ UNCHANGED <<file, runs, flags, exit, progress, dates, ctxDone, listener,
                 dayVars, dayErr, saveErr, progress0, observedAt, sigDate,
                 ledger, fileLedger, fnVars>>

\* lines 170-172: cancellation ends the wait; break leaves the select only
DelayCancelled ==
  /\ pc = "delay"
  /\ ctxDone
  /\ pc' = "loop"
  /\ i' = i + 1
  /\ observedAt' = IF observedAt = 0 THEN i + 1 ELSE observedAt
  /\ UNCHANGED <<file, runs, flags, exit, progress, dates, ctxDone, listener,
                 dayVars, dayErr, saveErr, progress0, attempted, sigDate,
                 ledger, fileLedger, fnVars>>

----------------------------------------------------------------------------
(* The process dies *)

\* killed at any point: memory is lost, the file stays as it is
Crash ==
  /\ pc \notin {"idle", "exited"}
  /\ Gone
  /\ UNCHANGED <<file, runs, fileLedger, fnVars>>

\* killed inside os.WriteFile, after the truncation and before the last byte
CrashInWrite ==
  /\ pc = "save"
  /\ file' = Partial
  /\ fileLedger' = EmptyMap
  /\ Gone
  /\ UNCHANGED <<runs, fnVars>>

\* the process that ended is gone
Exit ==
  /\ pc = "exited"
  /\ Gone
  /\ UNCHANGED <<file, runs, fileLedger, fnVars>>

----------------------------------------------------------------------------

Next ==
  \/ \E f \in FlagSets : StartRun(f)
  \/ Signal
  \/ ListenerCancel
  \/ LoopSkip
  \/ LoopStart
  \/ Fetch
  \/ Segment
  \/ Ingest
  \/ Save
  \/ DelayElapsed
  \/ DelayCancelled
  \/ Crash
  \/ CrashInWrite
  \/ Exit

Spec == Init /\ [][Next]_vars

----------------------------------------------------------------------------
(* The run when no process is killed: every step of main that can be taken *)
(* is taken in the end (the store's query, the gateway calls and the file  *)
(* write return, the timer fires, the scheduler runs the listener          *)
(* goroutine); signals and new invocations come when they come             *)

\* the command lines of these runs: an import of the whole window, the same
\* with --skip-graphiti, and --resume
FairFlags ==
  {Flags(FALSE, FALSE, FALSE, "G1", FirstDay, Today, 0),
   Flags(FALSE, FALSE, TRUE, "G1", FirstDay, Today, 0),
   Flags(TRUE, FALSE, FALSE, "", EmptyStr, EmptyStr, 0)}

FairNext ==
  \/ \E f \in FairFlags : StartRun(f)
  \/ Signal
  \/ ListenerCancel
  \/ LoopSkip
  \/ LoopStart
  \/ Fetch
  \/ Segment
  \/ Ingest
  \/ Save
  \/ DelayElapsed
  \/ DelayCancelled
  \/ Exit

Fairness ==
  /\ WF_vars(ListenerCancel)
  /\ WF_vars(LoopSkip)
  /\ WF_vars(LoopStart)
  /\ WF_vars(Fetch)
  /\ WF_vars(Segment)
  /\ WF_vars(Ingest)
  /\ WF_vars(Save)
  /\ WF_vars(DelayElapsed)
  /\ WF_vars(DelayCancelled)

FairSpec == Init /\ [][FairNext]_vars /\ Fairness

----------------------------------------------------------------------------
(* The helpers called on their own: segmentMessagesByTopic,                *)
(* generateDateRange and the request of callClaudeServer, applied to       *)
(* arguments drawn from bounded sets                                       *)

\* days of each window the planner's arguments are drawn from
PlanSpan == 4

\* first days of the windows: one runs over the end of a year, one over
\* the leap day that follows it into March
PlanAnchors == {<<2027, 12, 30>>, <<2028, 2, 27>>}

PlanDates ==
  {FormatDate(ParseDate(a) + k) : a \in PlanAnchors, k \in 0..(PlanSpan - 1)}

\* strings time.Parse rejects: a day and a month out of range, a date of a
\* year that is no leap year, the empty string
BadDates == {Malformed, <<2024, 13, 1>>, <<2025, 2, 29>>, EmptyStr}

PlanCalls ==
  [fn : {"generateDateRange"},
   startStr : PlanDates \cup BadDates,
   endStr : PlanDates \cup BadDates]

\* ways a gateway answer carries the JSON text body
FenceStyles ==
  {"bare", "json-lines", "plain-lines", "json-one-line", "plain-one-line",
   "prose", "unclosed"}

Fence(style, body) ==
  CASE style = "bare"           -> body
    [] style = "json-lines"     -> <<"FENCE", "json", "NL">> \o body \o <<"NL", "FENCE">>
    [] style = "plain-lines"    -> <<"FENCE", "NL">> \o body \o <<"NL", "FENCE">>
    [] style = "json-one-line"  -> <<"FENCE", "json", "SP">> \o body \o <<"SP", "FENCE">>
    [] style = "plain-one-line" -> <<"FENCE", "SP">> \o body \o <<"SP", "FENCE">>
    [] style = "prose"          -> <<"x", "NL", "FENCE", "json", "NL">> \o body
                                     \o <<"NL", "FENCE", "NL", "x">>
    [] style = "unclosed"       -> <<"FENCE", "json", "NL">> \o body

\* answers tried: every payload in every style, text that is no JSON
\* ("not json"), an empty text, and the failures of the exchange
FnReplies ==
  {Reply("transport", FALSE, <<>>), Reply("body", FALSE, <<>>),
   Reply("response", TRUE, <<"x">>)}
  \cup {Reply("response", FALSE, Fence(st, <<p>>)) :
          st \in FenceStyles, p \in PayloadNames}
  \cup {Reply("response", FALSE, t) : t \in {<<"x", "SP", "x">>, <<>>}}

SegmentCalls ==
  [fn : {"segmentMessagesByTopic"},
   k : 0..MaxMsgs,
   groupName : {"Family"},
   promptOK : BOOLEAN,
   reply : FnReplies]

\* values of CLAUDE_ALLOWED_TOOLS: unset or empty, the documented default,
\* and values that name the knowledge-graph tools
EnvTools ==
  { <<>>,
    <<"mcp__whatsapp">>,
    <<"mcp__graphiti">>,
    <<"mcp__whatsapp", ",", "mcp__graphiti">> }

\* the tools argument at the two call sites of callClaudeServer
ToolsAt(site) == IF site = "ingestion" THEN GraphTools ELSE NoTools

GatewayCalls ==
  [fn : {"callClaudeServer"},
   site : {"segmentation", "ingestion"},
   env : EnvTools,
   reply : FnReplies]

FnInit ==
  /\ InitRun
  /\ fnIn \in SegmentCalls \cup PlanCalls \cup GatewayCalls
  /\ fnOut = None

CallSegment ==
  /\ fnOut = None
  /\ fnIn.fn = "segmentMessagesByTopic"
  /\ fnOut' = segmentMessagesByTopic(fnIn.k, fnIn.promptOK, fnIn.reply)
  /\ UNCHANGED <<runVars, fnIn>>

CallPlan ==
  /\ fnOut = None
  /\ fnIn.fn = "generateDateRange"
  /\ fnOut' = generateDateRange(fnIn.startStr, fnIn.endStr)
  /\ UNCHANGED <<runVars, fnIn>>

\* callClaudeServer, lines 42-125: the request built for the gateway and
\* what the call returns for the gateway's answer
CallGateway ==
  /\ fnOut = None
  /\ fnIn.fn = "callClaudeServer"
  /\ fnOut' = [Args |-> <<"--allowedTools",
                          allowedTools(ToolsAt(fnIn.site), fnIn.env)>>,
               err |-> callClaudeServer(fnIn.reply).err,
               result |-> callClaudeServer(fnIn.reply).result]
  /\ UNCHANGED <<runVars, fnIn>>

FnNext ==
  \/ CallSegment
  \/ CallPlan
  \/ CallGateway

FnSpec == FnInit /\ [][FnNext]_vars

----------------------------------------------------------------------------
(* Vocabulary of the properties *)

\* every calendar date string of the years around the window
CalendarDates ==
  {<<y, m, d>> : y \in {BaseYear, BaseYear + 1}, m \in 1..12, d \in 1..31}
    \cap {s \in Seq(Nat) : ParseOK(s)}

\* the dates from p.StartDate to p.EndDate inclusive, by string comparison
PlannedSet(p) ==
  {d \in CalendarDates : ~DateLess(d, p.StartDate) /\ ~DateLess(p.EndDate, d)}

Processed(p) == Range(p.ProcessedDates)
FailedKeys(p) == DOMAIN p.FailedDates

\* a process runs or has just ended normally, with its progress in memory
Alive == pc \notin {"idle"} /\ exit \in {"running", "ok"}

\* no date is in flight and none is recorded but not yet saved
Settled == Alive /\ pc \in {"loop", "delay", "exited"}

\* the run went through its whole date list without seeing a cancellation
RanToEnd == pc = "exited" /\ exit = "ok" /\ ~flags.dryRun /\ observedAt = 0

----------------------------------------------------------------------------
(* C1 - resume attempts the planned range minus the processed dates *)

\* C1: on a resume run the dates attempted are the planned range of the
\* checkpoint minus its processed dates: no processed date is attempted, and a
\* run that reaches its end has attempted every other date, failed ones
\* included, once each.
C1_ResumeAttemptsPlannedMinusProcessed ==
  (Alive /\ flags.resume) =>
    LET todo == PlannedSet(progress0) \ Processed(progress0)
    IN /\ Range(dates) = todo
       /\ Range(attempted) \subseteq todo
       /\ Range(attempted) \cap Processed(progress0) = {}
       /\ RanToEnd =>
            /\ Range(attempted) = todo
            /\ Len(attempted) = Cardinality(todo)
            /\ (FailedKeys(progress0) \ Processed(progress0))
                 \subseteq Range(attempted)

C1_Witness ==
  /\ RanToEnd
  /\ flags.resume
  /\ progress0.ProcessedDates # <<>>
  /\ \E d \in FailedKeys(progress0) : d \in Range(attempted)

----------------------------------------------------------------------------
(* C2 - growth of |processed| + |failed| over a run *)

SizeOf(p) == Len(p.ProcessedDates) + Cardinality(FailedKeys(p))

\* attempted dates that were failed-map keys before the run and failed again
Refailed ==
  {d \in Range(attempted) :
     d \in FailedKeys(progress0) /\ d \notin Processed(progress)}

----------------------------------------------------------------------------
(* C3 - failed-map and processed set *)

Snapshots == {p \in {progress, file} : p \notin {None, NoFile, Partial}}

\* C3 as claimed: in every checkpoint state, in memory or on disk, no key of
\* the failed-map is in the processed list.
C3_FailedDisjointFromProcessed ==
  \A p \in Snapshots : FailedKeys(p) \cap Processed(p) = {}

----------------------------------------------------------------------------
(* C4 - the save between two dates *)

----------------------------------------------------------------------------
(* C5 - the file is a complete snapshot *)

\* C5 as claimed: whenever the process dies, the file, if there is one, is a
\* complete snapshot that a resume can load.
C5_FileAlwaysComplete == file # Partial

----------------------------------------------------------------------------
(* C6 - cancellation seen before a date *)

\* the entry of date d is what it was when the run started
Untouched(p, d) ==
  /\ d \notin Processed(p)
  /\ IF d \in FailedKeys(progress0)
       THEN d \in FailedKeys(p) /\ p.FailedDates[d] = progress0.FailedDates[d]
       ELSE d \notin FailedKeys(p)

\* C6: once the loop has seen the cancellation before date D, neither D nor
\* any later date of the list is attempted or recorded by this run, in memory
\* or in the checkpoint the run has written.
C6_NothingAfterCancellationSeen ==
  (Alive /\ observedAt > 0) =>
    \A k \in observedAt..Len(dates) :
      /\ dates[k] \notin Range(attempted)
      /\ Untouched(progress, dates[k])
      /\ (saveErr = "" /\ pc # "save") => Untouched(file, dates[k])

C6_Witness ==
  /\ pc = "exited"
  /\ exit = "ok"
  /\ observedAt = 2
  /\ Len(dates) >= 2
  /\ attempted = <<dates[1]>>
  /\ saveErr = ""
  /\ Processed(file) \cup FailedKeys(file) = {dates[1]}

----------------------------------------------------------------------------
(* C7 - a signal while a date is in flight *)

Recorded(p, d) == d \in Processed(p) \/ d \in FailedKeys(p)

----------------------------------------------------------------------------
(* C8 - segmentation failures *)

\* C8 as claimed: no date is in the failed-map because its segmentation failed.
C8_SegmentationNeverFailsDay ==
  Alive =>
    \A d \in FailedKeys(progress) :
      progress.FailedDates[d][1] # "failed to segment messages by topic"

----------------------------------------------------------------------------
(* C9 - ingestion failures *)

IngestErr == "failed to add episodes to Graphiti"

----------------------------------------------------------------------------
(* C10 - fetch failures *)

FetchErr == "failed to get messages"

\* C10: the step in which the fetch of date D fails sets the failed-map entry
\* of D to that error, overwriting an earlier entry, and changes nothing else
\* of the progress; the step after it saves and goes on to the delay before
\* the next date (or ends the run after the last date), it does not abort.
C10_FetchFailureRecordedRunGoesOn ==
  [][ /\ (pc = "fetch" /\ pc' = "save" /\ dayErr' # NoErr) =>
           /\ dayErr'[1] = FetchErr
           /\ FailedKeys(progress') = FailedKeys(progress) \cup {dates[i]}
           /\ progress'.FailedDates[dates[i]] = dayErr'
           /\ \A d \in FailedKeys(progress) \ {dates[i]} :
                progress'.FailedDates[d] = progress.FailedDates[d]
           /\ [progress' EXCEPT !.FailedDates = progress.FailedDates] = progress
      /\ (pc = "save" /\ dayErr # NoErr /\ pc' \notin {"save", "idle"}) =>
           /\ progress' = progress
           /\ IF i < Len(dates)
                THEN pc' = "delay" /\ exit' = "running" /\ i' = i
                ELSE pc' = "exited" /\ exit' = "ok"
      /\ (pc = "delay" /\ pc' \notin {"delay", "idle"}) =>
           (pc' = "loop" /\ i' = i + 1 /\ progress' = progress)
    ]_vars

C10_Witness ==
  /\ pc = "delay"
  /\ dayErr # NoErr
  /\ dayErr[1] = FetchErr
  /\ dates[i] \in FailedKeys(progress0)
  /\ progress0.FailedDates[dates[i]] # dayErr
  /\ progress.FailedDates[dates[i]] = dayErr

----------------------------------------------------------------------------
(* Vocabulary of the properties of generateDateRange *)

\* generateDateRange was called on its own and has returned
PlanReturned ==
  /\ fnIn # None
  /\ fnIn.fn = "generateDateRange"
  /\ fnOut # None

\* the calendar day after the date string a
NextDay(a) ==
  IF a[3] < DaysIn(a[1], a[2]) THEN <<a[1], a[2], a[3] + 1>>
  ELSE IF a[2] < 12 THEN <<a[1], a[2] + 1, 1>>
  ELSE <<a[1] + 1, 1, 1>>

\* days(a, b) for a <= b: the number of calendar days from a to b
RECURSIVE DaysBetween(_, _)
DaysBetween(a, b) == IF a = b THEN 0 ELSE 1 + DaysBetween(NextDay(a), b)

\* a date string is malformed, or the start is after the end
BadRange(startStr, endStr) ==
  \/ ~ParseOK(startStr)
  \/ ~ParseOK(endStr)
  \/ DateLess(endStr, startStr)

----------------------------------------------------------------------------
(* C11 - interruption and resume: processed dates and totals *)

IsSnapshot(p) == p \notin {None, NoFile, Partial}

RECURSIVE SumMessages(_, _)
SumMessages(l, S) ==
  IF S = {} THEN 0
  ELSE LET d == CHOOSE x \in S : TRUE
       IN l[d].MessagesFound + SumMessages(l, S \ {d})

RECURSIVE SumEpisodes(_, _)
SumEpisodes(l, S) ==
  IF S = {} THEN 0
  ELSE LET d == CHOOSE x \in S : TRUE
       IN l[d].EpisodesAdded + SumEpisodes(l, S \ {d})

\* the totals of snapshot p are the sums, over its processed dates, of the
\* counts in l; no date is listed twice
TotalsMatch(p, l) ==
  /\ Processed(p) \subseteq DOMAIN l
  /\ Len(p.ProcessedDates) = Cardinality(Processed(p))
  /\ p.TotalMessages = SumMessages(l, Processed(p))
  /\ p.TotalEpisodes = SumEpisodes(l, Processed(p))

\* the file holds a checkpoint of the import the running process works on
SameImport ==
  /\ IsSnapshot(file)
  /\ IsSnapshot(progress)
  /\ file.StartTime = progress.StartTime

\* C11 as claimed: over an interrupted run and its resumes, however the run was
\* interrupted, (1) no date the checkpoint in the file lists as processed is
\* attempted again, (2) what a checkpoint of the import holds is not lost: the
\* file stays a checkpoint that lists the same processed dates or more, with
\* totals that are not smaller, and (3) the totals of every checkpoint written
\* are the sums of the message and episode counts of its processed dates.
C11_ResumeKeepsProcessedAndTotals ==
  [][ /\ (pc = "loop" /\ pc' = "fetch" /\ SameImport) =>
           dates[i] \notin Processed(file)
      /\ (SameImport /\ file' # file) =>
           /\ IsSnapshot(file')
           /\ Processed(file) \subseteq Processed(file')
           /\ file'.TotalMessages >= file.TotalMessages
           /\ file'.TotalEpisodes >= file.TotalEpisodes
      /\ IsSnapshot(file') => TotalsMatch(file', fileLedger')
    ]_vars

----------------------------------------------------------------------------
(* C12 - resume of a finished import *)

\* every calendar day from a to b is in S
RECURSIVE EveryDayFrom(_, _, _)
EveryDayFrom(a, b, S) == a \in S /\ (a = b \/ EveryDayFrom(NextDay(a), b, S))

EveryDayIn(a, b, S) == ~BadRange(a, b) /\ EveryDayFrom(a, b, S)

\* C12: a resume whose checkpoint lists every date of its range as processed
\* has an empty date list, attempts nothing and returns normally; the progress
\* in memory and the file stay the checkpoint that was loaded (processed list,
\* failed-map, last processed date and both totals).
C12_ResumeOfFinishedImportChangesNothing ==
  (pc # "idle" /\ flags.resume /\ IsSnapshot(progress0)
     /\ EveryDayIn(progress0.StartDate, progress0.EndDate,
                   Processed(progress0))) =>
    /\ dates = <<>>
    /\ attempted = <<>>
    /\ pc = "exited"
    /\ exit = "ok"
    /\ progress = progress0
    /\ file = progress0

C12_Witness ==
  /\ pc = "exited"
  /\ flags.resume
  /\ ~flags.dryRun
  /\ IsSnapshot(progress0)
  /\ Processed(progress0) = PlannedSet(progress0)
  /\ Len(progress0.ProcessedDates) = 2
  /\ progress0.TotalMessages > 0
  /\ file = progress0
  /\ attempted = <<>>

----------------------------------------------------------------------------
(* Vocabulary of the properties of segmentMessagesByTopic *)

\* segmentMessagesByTopic was called on its own and has returned
SegmentReturned ==
  /\ fnIn # None
  /\ fnIn.fn = "segmentMessagesByTopic"
  /\ fnOut # None

\* the answer is the text t, delivered without error
Answered(t) == fnIn.reply = Reply("response", FALSE, t)

\* the positions of idx that address one of k messages
ValidPositions(idx, k) == {n \in 1..Len(idx) : idx[n] >= 0 /\ idx[n] < k}

\* the segment of all k messages of the day
AllMessages(k) == [n \in 1..k |-> n - 1]

\* "<groupName>_daily_conversation"
FallbackLabel(g) == CASE g = "Family" -> "Family_daily_conversation"

IsFallback(topics, g, k) ==
  /\ DOMAIN topics = {FallbackLabel(g)}
  /\ topics[FallbackLabel(g)] = AllMessages(k)

----------------------------------------------------------------------------
(* C13 - the fallback segment *)

\* C13 as claimed: for a day of K > 0 messages, when the gateway call fails,
\* when the answer is no JSON ("not json", an empty text), or when no segment
\* of the decoded answer has a valid index, the segmenter returns without
\* error exactly one segment, named after the group, that holds all K messages.
C13_FallbackSegmentOnFailure ==
  (SegmentReturned /\ fnIn.k > 0 /\ fnIn.promptOK
     /\ \/ callClaudeServer(fnIn.reply).err # ""
        \/ Answered(<<"x", "SP", "x">>)
        \/ Answered(<<>>)
        \/ \E p \in PayloadNames :
             /\ Answered(<<p>>)
             /\ \A t \in DOMAIN Payload(p) :
                  ValidPositions(Payload(p)[t], fnIn.k) = {}) =>
    /\ fnOut.err = ""
    /\ IsFallback(fnOut.topics, fnIn.groupName, fnIn.k)

----------------------------------------------------------------------------
(* C14 - fenced answers *)

FencedStyles == {"json-lines", "plain-lines", "json-one-line", "plain-one-line"}

\* C14 as claimed: an answer that is a JSON topic partition inside a fenced
\* code block, with or without the json tag, on one line with the fences or on
\* lines of its own, gives the result the bare JSON text gives.
C14_FencedAnswerParsedAsBare ==
  SegmentReturned =>
    \A st \in FencedStyles, p \in PayloadNames :
      Answered(Fence(st, <<p>>)) =>
        fnOut = segmentMessagesByTopic(fnIn.k, fnIn.promptOK,
                                       Reply("response", FALSE, <<p>>))

----------------------------------------------------------------------------
(* C15 - index filtering *)

\* the styles extractJSONFromMarkdown reduces to the JSON text
DecodedStyles == {"bare", "json-lines", "plain-lines", "prose", "unclosed"}

\* the j-th smallest element of a set of positions
NthOf(pos, j) == CHOOSE n \in pos : Cardinality({m \in pos : m <= n}) = j

\* C15: when the decoded answer has at least one segment with a valid index,
\* the segmenter returns no error; the segments returned are exactly those
\* with a valid index, each with its valid indices in their order and nothing
\* else; segments left empty are omitted; the all-messages fallback segment is
\* not returned.
C15_InvalidIndicesDroppedQuietly ==
  (SegmentReturned /\ fnIn.k > 0 /\ fnIn.promptOK) =>
    \A st \in DecodedStyles, p \in PayloadNames :
      LET seg == Payload(p)
          k == fnIn.k
          kept == {t \in DOMAIN seg : ValidPositions(seg[t], k) # {}}
      IN (Answered(Fence(st, <<p>>)) /\ kept # {}) =>
           /\ fnOut.err = ""
           /\ DOMAIN fnOut.topics = kept
           /\ \A t \in kept :
                LET pos == ValidPositions(seg[t], k)
                    out == fnOut.topics[t]
                IN /\ Len(out) = Cardinality(pos)
                   /\ \A j \in 1..Len(out) : out[j] = seg[t][NthOf(pos, j)]
           /\ ~IsFallback(fnOut.topics, fnIn.groupName, k)

C15_Witness ==
  /\ SegmentReturned
  /\ fnIn.k = 2
  /\ fnIn.promptOK
  /\ Answered(Fence("json-lines", <<"P_edge">>))
  /\ fnOut.err = ""
  /\ DOMAIN fnOut.topics = {"a"}
  /\ fnOut.topics["a"] = <<1, 0>>

----------------------------------------------------------------------------
(* Vocabulary of the properties of one day *)

\* the fetch of the day in flight returned an error
FetchFailed == dayErr # NoErr /\ dayErr[1] = FetchErr

\* the failed-map entry of date d is what it was when the run started
FailedEntryKept(d) ==
  IF d \in FailedKeys(progress0)
    THEN /\ d \in FailedKeys(progress)
         /\ progress.FailedDates[d] = progress0.FailedDates[d]
    ELSE d \notin FailedKeys(progress)

\* the date of the day in flight is the last one appended to the processed list
AppendedLast ==
  /\ progress.ProcessedDates # <<>>
  /\ progress.ProcessedDates[Len(progress.ProcessedDates)] = dates[i]
  /\ progress.LastProcessedDate = dates[i]

----------------------------------------------------------------------------
(* C16 - a day without messages *)

\* C16: when the fetch of a date succeeds with zero messages, processSingleDay
\* returns no error and stats whose message, topic and episode counts are 0,
\* no gateway call is made, and the date is appended to the processed list
\* while its failed-map entry is neither created nor changed.
C16_EmptyDayIsProcessed ==
  (pc = "save" /\ msgCount = 0 /\ ~FetchFailed) =>
    /\ dayErr = NoErr
    /\ stats = [MessagesFound |-> 0, TopicsCreated |-> 0, EpisodesAdded |-> 0]
    /\ calls = <<>>
    /\ topicSegments = EmptyMap
    /\ AppendedLast
    /\ ledger[dates[i]] = stats
    /\ FailedEntryKept(dates[i])

C16_Witness ==
  /\ pc = "save"
  /\ msgCount = 0
  /\ dayErr = NoErr
  /\ ~flags.skipGraphiti
  /\ i = 2
  /\ dates[2] \in Processed(progress)
  /\ progress.TotalMessages > 0
  /\ progress.TotalEpisodes > 0

----------------------------------------------------------------------------
(* C17 - skip-graphiti *)

\* C17: with --skip-graphiti, every date whose fetch succeeds returns stats
\* with the number of fetched messages as message count and 0 topics and
\* episodes, no gateway call is made for segmentation or ingestion, and the
\* cumulative episode total stays what it was when the run started.
C17_SkipModeCountsMessagesOnly ==
  (Alive /\ flags.skipGraphiti) =>
    /\ calls = <<>>
    /\ topicSegments = EmptyMap
    /\ progress.TotalEpisodes = progress0.TotalEpisodes
    /\ (pc = "save" /\ ~FetchFailed) =>
         /\ dayErr = NoErr
         /\ stats = [MessagesFound |-> msgCount, TopicsCreated |-> 0,
                     EpisodesAdded |-> 0]
         /\ AppendedLast

C17_Witness ==
  /\ pc = "save"
  /\ flags.skipGraphiti
  /\ flags.resume
  /\ msgCount = MaxMsgs
  /\ stats # None
  /\ stats.MessagesFound = MaxMsgs
  /\ progress0.TotalEpisodes > 0
  /\ progress.TotalMessages = progress0.TotalMessages + MaxMsgs

----------------------------------------------------------------------------
(* C18 - episodes counted per submitted segment *)

\* C18: when a day that went through segmentation is recorded as processed,
\* its stats count as many topics and episodes as there are topic segments
\* handed to addEpisodesToGraphiti, and the cumulative episode total grows by
\* that number, however many of the submissions succeeded.
C18_EpisodesCountSubmittedSegments ==
  [][ (pc \in {"segment", "ingest"} /\ pc' = "save" /\ dayErr' = NoErr) =>
        LET n == Cardinality(DOMAIN topicSegments')
        IN /\ stats'.TopicsCreated = n
           /\ stats'.EpisodesAdded = n
           /\ progress'.TotalEpisodes = progress.TotalEpisodes + n
           /\ progress'.TotalMessages = progress.TotalMessages + msgCount'
           /\ successCount' <= n
    ]_vars

C18_Witness ==
  /\ pc = "save"
  /\ dayErr = NoErr
  /\ Cardinality(DOMAIN topicSegments) = 2
  /\ successCount = 1
  /\ stats # None
  /\ stats.EpisodesAdded = 2
  /\ progress.TotalEpisodes = progress0.TotalEpisodes + 2
  /\ Len(calls) = 2

----------------------------------------------------------------------------
(* C19 - the date range *)

\* C19: for valid date strings with start <= end the planner returns no error
\* and a list of days(start, end) + 1 date strings that begins with start,
\* ends with end, in which every entry is the calendar day after the one
\* before it (ascending, without gaps), and in which no date occurs twice.
C19_RangeIsEveryDayOnce ==
  (PlanReturned /\ ~BadRange(fnIn.startStr, fnIn.endStr)) =>
    LET ds == fnOut.dates
    IN /\ fnOut.err = ""
       /\ Len(ds) = DaysBetween(fnIn.startStr, fnIn.endStr) + 1
       /\ ds[1] = fnIn.startStr
       /\ ds[Len(ds)] = fnIn.endStr
       /\ \A k \in 1..(Len(ds) - 1) :
            /\ ds[k + 1] = NextDay(ds[k])
            /\ DateLess(ds[k], ds[k + 1])
       /\ Cardinality(Range(ds)) = Len(ds)

C19_Witness ==
  /\ PlanReturned
  /\ fnIn.startStr = <<2027, 12, 30>>
  /\ fnIn.endStr = <<2028, 3, 1>>
  /\ fnOut.err = ""
  /\ Len(fnOut.dates) = 63
  /\ <<2028, 1, 1>> \in Range(fnOut.dates)
  /\ <<2028, 2, 29>> \in Range(fnOut.dates)

----------------------------------------------------------------------------
(* C20 - an invalid range *)

\* the start and end date the run plans from: those of the checkpoint on
\* --resume, those of the fresh progress otherwise
RangeOf(f, fl) == IF f.resume THEN fl ELSE NewProgress(f, 0)

\* C20: a run whose start date is after its end date, or one of whose date
\* strings is malformed, ends with an error in its start-up: no date is
\* attempted, no gateway call is made, nothing is added to the processed list
\* or the failed-map, and the file is not written, neither then nor when the
\* process exits.
C20_InvalidRangeAbortsBeforeAnyDate ==
  [][ /\ (/\ pc = "idle" /\ pc' # "idle"
          /\ flags'.resume => IsSnapshot(file)
          /\ BadRange(RangeOf(flags', file).StartDate,
                      RangeOf(flags', file).EndDate)) =>
           /\ pc' = "exited"
           /\ exit' = "error"
           /\ dates' = <<>>
           /\ attempted' = <<>>
           /\ calls' = <<>>
           /\ file' = file
           /\ IsSnapshot(progress') =>
                /\ progress'.ProcessedDates = RangeOf(flags', file).ProcessedDates
                /\ progress'.FailedDates = RangeOf(flags', file).FailedDates
      /\ (pc = "exited" /\ exit = "error") =>
           (pc' = "idle" /\ file' = file)
    ]_vars

C20_Witness ==
  /\ pc = "exited"
  /\ exit = "error"
  /\ ~flags.resume
  /\ flags.daysBack = 0
  /\ ParseOK(flags.startDate)
  /\ ParseOK(flags.endDate)
  /\ DateLess(flags.endDate, flags.startDate)
  /\ attempted = <<>>
  /\ IsSnapshot(file)
  /\ file.ProcessedDates # <<>>

----------------------------------------------------------------------------
(* C21 - --days-back together with --start-date and --end-date *)

\* a fresh run was given a positive --days-back and both explicit dates, and
\* its progress has been created
BothModesGiven ==
  /\ pc # "idle"
  /\ ~flags.resume
  /\ flags.daysBack > 0
  /\ flags.startDate # EmptyStr
  /\ flags.endDate # EmptyStr
  /\ IsSnapshot(progress0)

\* C21: with both given, the explicit start and end date are the
\* range of the run and the days-back count is not used.
C21_ExplicitDatesTakePrecedence ==
  BothModesGiven =>
    /\ progress0.StartDate = flags.startDate
    /\ progress0.EndDate = flags.endDate

\* what the run does instead: its range ends today and starts --days-back
\* days before today, and its date list is that range
DaysBackRangeUsed ==
  BothModesGiven =>
    /\ progress0.EndDate = Today
    /\ progress0.StartDate = FormatDate(ParseDate(Today) - flags.daysBack)
    /\ dates = DatesFrom(ParseDate(Today) - flags.daysBack, ParseDate(Today))

----------------------------------------------------------------------------
(* C22 - --resume without a checkpoint *)

\* the process starts with --resume and the file is missing or cut short
ResumeWithoutCheckpoint ==
  /\ pc = "idle"
  /\ pc' # "idle"
  /\ flags'.resume
  /\ ~IsSnapshot(file)

\* C22: a run started with --resume while the checkpoint file is missing or
\* cannot be decoded ends in its start-up with an error: no progress is
\* held, no date is planned or attempted, no gateway call is made, and the
\* file is left as it was (none is created), then and when the process exits.
C22_ResumeWithoutCheckpointAborts ==
  [][ /\ ResumeWithoutCheckpoint =>
           /\ pc' = "exited"
           /\ exit' = "error"
           /\ progress' = None
           /\ dates' = <<>>
           /\ attempted' = <<>>
           /\ calls' = <<>>
           /\ file' = file
      /\ (pc = "exited" /\ exit = "error" /\ flags.resume /\ progress = None) =>
           (pc' = "idle" /\ file' = file)
    ]_vars

C22_Witness ==
  /\ pc = "exited"
  /\ exit = "error"
  /\ flags.resume
  /\ progress = None
  /\ file = NoFile
  /\ attempted = <<>>

\* the same with a file cut short by a kill inside the write
ResumeOnPartialFile ==
  /\ pc = "exited"
  /\ exit = "error"
  /\ flags.resume
  /\ file = Partial

----------------------------------------------------------------------------
(* C23 - the order of the attempts *)

\* every element of s is an earlier day than the elements after it
Ascending(s) ==
  \A a, b \in 1..Len(s) : a < b => DateLess(s[a], s[b])

\* C23: in every state of a run the dates attempted so far are in strictly
\* ascending date order: they are the first dates of the run's list, in the
\* order of the list, and the list is ascending. On --resume a date of the
\* failed-map that is not processed is in that list, hence at its place by
\* date among the dates that are left.
C23_AttemptsAscending ==
  pc # "idle" =>
    /\ Ascending(dates)
    /\ Ascending(attempted)
    /\ Len(attempted) <= Len(dates)
    /\ attempted = SubSeq(dates, 1, Len(attempted))
    /\ (flags.resume /\ IsSnapshot(progress0) /\ exit # "error") =>
         (FailedKeys(progress0) \ Processed(progress0)) \subseteq Range(dates)

\* a resumed run retried a failed date first and then went on to a later date
C23_Witness ==
  /\ pc # "idle"
  /\ flags.resume
  /\ Len(attempted) = 2
  /\ attempted[1] \in FailedKeys(progress0)
  /\ DateLess(attempted[1], attempted[2])
  /\ ~Recorded(progress0, attempted[2])

----------------------------------------------------------------------------
(* C24 - the last-processed date *)

\* the last-processed date of p is the date appended last, and is empty
\* while nothing is processed
LastIsLastAppended(p) ==
  IF p.ProcessedDates = <<>>
    THEN p.LastProcessedDate = EmptyStr
    ELSE p.LastProcessedDate = p.ProcessedDates[Len(p.ProcessedDates)]

\* processSingleDay has just returned an error to main
AttemptFailed ==
  /\ pc \in InFlight
  /\ pc' = "save"
  /\ dayErr' # NoErr

\* C24: in the progress in memory and in the file, after every step, the
\* last-processed date is the last element of the processed list (the date
\* appended last, whatever its place in the calendar); a step in which the
\* day fails leaves the last-processed date and the processed list as they
\* were.
C24_LastProcessedIsLastAppended ==
  [][ /\ \A p \in Snapshots' : LastIsLastAppended(p)
      /\ AttemptFailed =>
           /\ progress'.LastProcessedDate = progress.LastProcessedDate
           /\ progress'.ProcessedDates = progress.ProcessedDates
    ]_vars

\* the file after a resumed run processed a date that had failed: its
\* last-processed date is earlier than a date processed before it
C24_Witness ==
  /\ IsSnapshot(file)
  /\ flags # None
  /\ flags.resume
  /\ Len(file.ProcessedDates) = 2
  /\ file.LastProcessedDate = file.ProcessedDates[2]
  /\ DateLess(file.LastProcessedDate, file.ProcessedDates[1])
  /\ file.LastProcessedDate \in FailedKeys(file)

\* a failed attempt after a processed date
FailedAfterProcessed ==
  /\ pc = "save"
  /\ dayErr # NoErr
  /\ progress.ProcessedDates # <<>>
  /\ progress.LastProcessedDate # dates[i]

----------------------------------------------------------------------------
(* C25 - recorded dates lie in the range of the checkpoint *)

\* d is a day of the range of p, its start and end date included
WithinRange(p, d) ==
  /\ ~DateLess(d, p.StartDate)
  /\ ~DateLess(p.EndDate, d)

\* C25: in the progress in memory and in the file, in every reachable state
\* and whatever fresh runs and resumes came before, every date of the
\* processed list and every key of the failed-map is a day between the start
\* date and the end date of that same checkpoint, both included.
C25_RecordedDatesWithinRange ==
  \A p \in Snapshots :
    \A d \in Processed(p) \cup FailedKeys(p) : WithinRange(p, d)

\* the file of an import resumed in a second run holds a processed date and a
\* failed date, the range being the two days
C25_Witness ==
  /\ runs = 2
  /\ flags # None
  /\ flags.resume
  /\ IsSnapshot(file)
  /\ file.StartDate # file.EndDate
  /\ file.EndDate \in Processed(file)
  /\ file.StartDate \in FailedKeys(file)
  /\ attempted # <<>>

\* a range of one day inside the window, its day recorded
OneDayRangeRecorded ==
  /\ IsSnapshot(file)
  /\ file.StartDate = file.EndDate
  /\ Processed(file) \cup FailedKeys(file) = {file.StartDate}

----------------------------------------------------------------------------
(* C26 - cancellation during the wait between two dates *)

\* the context is cancelled and main is in the wait or at the top of the loop
CancelledBetweenDates == ctxDone /\ pc \in {"delay", "loop"}

\* C26: when the context is cancelled while main waits between two dates,
\* the cancelling step changes nothing else; from then on every step of the
\* run leaves the attempts, the progress in memory and the file as they are
\* and leads to the top of the loop or to the end of the run, never into a
\* date; the file is the same when the process is gone.
C26_CancelledWaitStartsNothing ==
  [][ /\ (pc = "delay" /\ ~ctxDone /\ ctxDone') =>
           /\ pc' = "delay"
           /\ attempted' = attempted
           /\ progress' = progress
           /\ file' = file
      /\ CancelledBetweenDates =>
           /\ file' = file
           /\ pc' \in {"delay", "loop", "exited", "idle"}
           /\ pc = "loop" => pc' # "delay"
           /\ pc' # "idle" =>
                /\ attempted' = attempted
                /\ progress' = progress
                /\ ctxDone'
      /\ (pc = "exited" /\ ctxDone) => file' = file
    ]_vars

\* the wait after the first date was ended by the cancellation: main is at
\* the top of the loop for the next date, which it will skip
C26_Witness ==
  /\ pc = "loop"
  /\ ctxDone
  /\ observedAt = i
  /\ i > 1
  /\ Len(attempted) = i - 1
  /\ sigDate = EmptyStr
  /\ file = progress

----------------------------------------------------------------------------
(* C27 - one gateway call per topic segment *)

\* gateway calls of the day in flight made with the knowledge-graph tools
GraphCalls == Cardinality({k \in 1..Len(calls) : calls[k] = GraphTools})

\* the topics of the day in flight
Topics == DOMAIN topicSegments

\* addEpisodesToGraphiti has gone through every topic of the day and
\* returned to processSingleDay, which returned to main
IngestionEnded == pc = "save" /\ Topics # {} /\ pending = {}

\* a step of the loop of addEpisodesToGraphiti
IngestStep == pc = "ingest" /\ pc' # "idle" /\ pending' # pending

OneFailedOneAdded ==
  /\ IngestionEnded
  /\ Cardinality(Topics) = 2
  /\ GraphCalls = 2
  /\ successCount = 1
  /\ dayErr = NoErr

----------------------------------------------------------------------------
(* C28 - the capability scope of the two kinds of gateway call *)

\* callClaudeServer has built its request
RequestBuilt == fnIn.fn = "callClaudeServer" /\ fnOut # None

\* the scope sent names the knowledge-graph tools
GraphAccess(args) == "mcp__graphiti" \in Range(args[2])

\* C28: whatever the value of CLAUDE_ALLOWED_TOOLS, the request of an
\* ingestion call names the knowledge-graph tools in its scope and the
\* request of a segmentation call does not.
C28_OnlyIngestionHasGraphAccess ==
  RequestBuilt =>
    (GraphAccess(fnOut.Args) <=> fnIn.site = "ingestion")

\* what holds instead: an ingestion call sends exactly the knowledge-graph
\* tools, a segmentation call sends the value of the environment as it is
ScopeFromEnvironment ==
  RequestBuilt =>
    fnOut.Args[2] = (IF fnIn.site = "ingestion" THEN <<"mcp__graphiti">>
                                               ELSE fnIn.env)

----------------------------------------------------------------------------
(* C29 - only completed days are marked processed *)

\* processSingleDay has just returned stats and no error for the date in
\* flight, having gone through every step the flags ask for
DayCompleted ==
  /\ pc \in InFlight
  /\ pc' = "save"
  /\ dayErr' = NoErr
  /\ stats' # None
  /\ stats'.MessagesFound = msgCount'
  /\ (~flags.skipGraphiti /\ msgCount' > 0) =>
       /\ calls' # <<>>
       /\ calls'[1] = NoTools
       /\ pending' = {}
       /\ Topics' # {} => successCount' >= 1

\* C29: a date gets onto the processed list in memory only in the step in
\* which its processSingleDay returns success after its last step, and onto
\* the list in the file only from there: in memory and in the file every
\* processed date is one whose day returned success. The date in flight is
\* not on the list in memory, and no step taken while it is in flight, a
\* cancellation or a kill included, changes the file.
C29_ProcessedOnlyAfterSuccess ==
  [][ /\ IsSnapshot(progress') => Processed(progress') \subseteq DOMAIN ledger'
      /\ IsSnapshot(file') => Processed(file') \subseteq DOMAIN fileLedger'
      /\ (pc # "idle" /\ pc' # "idle"
            /\ progress'.ProcessedDates # progress.ProcessedDates) =>
           /\ DayCompleted
           /\ progress'.ProcessedDates = Append(progress.ProcessedDates, dates[i])
      /\ pc' \in InFlight => dates'[i'] \notin Processed(progress')
      /\ pc \in InFlight => file' = file
    ]_vars

\* the context was cancelled while the second date is being ingested, one
\* of its episodes added and one topic left: the date is on no list, the
\* file holds the date before it
C29_Witness ==
  /\ pc = "ingest"
  /\ ctxDone
  /\ successCount >= 1
  /\ pending # {}
  /\ IsSnapshot(file)
  /\ Processed(file) # {}
  /\ dates[i] \notin Processed(file)
  /\ dates[i] \notin Processed(progress)

----------------------------------------------------------------------------
(* C30 - one date at a time, one step at a time *)

\* the positions main can go to from position p in one step; "idle" is the
\* process being killed or gone
Successors(p) ==
  CASE p = "idle"    -> {"loop", "exited"}
    [] p = "loop"    -> {"fetch", "loop", "exited", "idle"}
    [] p = "fetch"   -> {"segment", "save", "idle"}
    [] p = "segment" -> {"ingest", "save", "idle"}
    [] p = "ingest"  -> {"ingest", "save", "idle"}
    [] p = "save"    -> {"delay", "exited", "idle"}
    [] p = "delay"   -> {"loop", "idle"}
    [] p = "exited"  -> {"idle"}

NoDuplicates(s) == \A a, b \in 1..Len(s) : a # b => s[a] # s[b]

\* C30: main is at one position at a time and moves fetch, then
\* segmentation, then ingestion, then save; a date is started only from the
\* top of the loop, when no date is in flight, and it is the date of the
\* loop index, which only moves forward by one; no date is attempted twice
\* in a run; the gateway calls of a day are one segmentation call followed
\* by ingestion calls only, and ingestion is entered only with the topics
\* the segmentation call returned.
C30_StrictlySequential ==
  [][ /\ pc' # pc => pc' \in Successors(pc)
      /\ (pc \in InFlight /\ pc' = pc) => (pc = "ingest" \/ UNCHANGED dayVars)
      /\ (pc # "idle" /\ pc' # "idle" /\ attempted' # attempted) =>
           /\ pc = "loop"
           /\ pc' = "fetch"
           /\ attempted' = Append(attempted, dates[i])
      /\ (pc # "idle" /\ pc' # "idle") =>
           /\ dates' = dates
           /\ i' \in {i, i + 1}
           /\ pc \in InFlight => i' = i
      /\ NoDuplicates(attempted')
      /\ pc' \in InFlight => attempted'[Len(attempted')] = dates'[i']
      /\ pc' = "fetch" => calls' = <<>>
      /\ pc' = "segment" => calls' = <<>>
      /\ pc' = "ingest" =>
           /\ Topics' # {}
           /\ calls'[1] = NoTools
           /\ \A k \in 2..Len(calls') : calls'[k] = GraphTools
           /\ Len(calls') - 1 <= Cardinality(Topics' \ pending')
    ]_vars

\* the second date of a run went through fetch, one segmentation call and
\* two ingestion calls, and has returned
C30_Witness ==
  /\ pc = "save"
  /\ Len(attempted) = 2
  /\ i = 2
  /\ calls = <<NoTools, GraphTools, GraphTools>>
  /\ dayErr = NoErr
  /\ pending = {}

----------------------------------------------------------------------------
(* C31 - what the listener and the main loop share *)

\* a step of the listener goroutine: the signal arrives on c, or the
\* goroutine takes it from c and calls cancel()
ListenerStep ==
  \/ listener = "waiting" /\ listener' = "signalled"
  \/ listener = "signalled" /\ listener' = "cancelled"

\* C31: a step of the listener leaves the progress in memory, the file, the
\* date list, the loop index, the position of main and the state of the day
\* in flight as they are; the context, once cancelled, stays cancelled for
\* the rest of the run; and it becomes cancelled only in the listener's step
\* that follows a signal, never in a step of main.
C31_ListenerSharesOnlyTheContext ==
  [][ /\ ListenerStep =>
           /\ progress' = progress
           /\ file' = file
           /\ dates' = dates
           /\ i' = i
           /\ pc' = pc
           /\ attempted' = attempted
           /\ UNCHANGED <<dayVars, dayErr, saveErr>>
      /\ (ctxDone /\ pc' # "idle") => ctxDone'
      /\ (~ctxDone /\ ctxDone') =>
           /\ listener = "signalled"
           /\ listener' = "cancelled"
      /\ (~ListenerStep /\ pc' # "idle") => ctxDone' = ctxDone
    ]_vars

\* the context was cancelled while the second date was in flight, and the
\* day has gone on to its ingestion with the progress of the first date
C31_Witness ==
  /\ listener = "cancelled"
  /\ ctxDone
  /\ pc = "ingest"
  /\ sigDate = dates[i]
  /\ i = 2
  /\ progress.ProcessedDates = <<dates[1]>>
  /\ file = progress

----------------------------------------------------------------------------
(* C32 - what the gateway client returns *)

\* the exchange failed: nothing came back, the body is no ClaudeResponse, or
\* the response says is_error
ExchangeFailed(reply) ==
  \/ reply.kind = "transport"
  \/ reply.kind = "body"
  \/ reply.is_error

\* C32: callClaudeServer returns an error and the empty string when the
\* request could not be sent, when the body could not be read or decoded,
\* and when the decoded response has is_error true; otherwise it returns no
\* error and the result field of the response.
C32_ErrorOrResult ==
  RequestBuilt =>
    IF ExchangeFailed(fnIn.reply)
      THEN fnOut.err # "" /\ fnOut.result = <<>>
      ELSE fnOut.err = "" /\ fnOut.result = fnIn.reply.result

\* a response with is_error true and a text in its result field
C32_Witness ==
  /\ RequestBuilt
  /\ fnIn.reply.kind = "response"
  /\ fnIn.reply.is_error
  /\ fnIn.reply.result # <<>>
  /\ fnOut.err = "Claude returned an error"
  /\ fnOut.result = <<>>

\* a response with is_error false: its result is handed back
ResultReturned ==
  /\ RequestBuilt
  /\ ~ExchangeFailed(fnIn.reply)
  /\ fnOut.result = <<"FENCE", "json", "NL", "P_two", "NL", "FENCE">>

----------------------------------------------------------------------------
(* C33 - a signal ends the run *)

\* the process has returned from main or is gone
Terminated == pc \in {"exited", "idle"}

\* C33: once the signal has arrived the run terminates in the end, provided
\* the calls in flight return; and from the step that cancels the context
\* on, no date is started: every step leaves the attempts as they are and
\* the loop only moves on over the dates that are left.
C33_SignalEndsRun ==
  /\ (listener = "signalled") ~> Terminated
  /\ ctxDone ~> Terminated
  /\ [][ (ctxDone' /\ pc' # "idle") =>
            /\ attempted' = attempted
            /\ pc' = "fetch" => pc = "fetch"
            /\ i' # i => i' = i + 1
            /\ (pc = "loop" /\ ctxDone) => (pc' \in {"loop", "exited"})
        ]_vars

\* the run has ended after a cancellation with dates of its list that were
\* never attempted
C33_Witness ==
  /\ pc = "exited"
  /\ exit = "ok"
  /\ ctxDone
  /\ observedAt > 0
  /\ Len(attempted) < Len(dates)
  /\ i = Len(dates)

----------------------------------------------------------------------------
(* C34 - a run that is left alone goes through its whole list *)

\* main is past its start-up and has not returned
Running == pc \notin {"idle", "exited"}

\* main has returned from a run that was never cancelled
EndedUncancelled ==
  /\ pc = "exited"
  /\ exit = "ok"
  /\ ~ctxDone
  /\ ~flags.dryRun

\* C34: with no kill, and the calls returning, a run that has started
\* returns from main in the end; and when it returns without its context
\* having been cancelled, every date of its list, filtered on --resume, has
\* been attempted and is on the processed list or a key of the failed-map,
\* in memory and, when the last save returned no error, in the file.
C34_UncancelledRunRecordsEveryDate ==
  /\ Running ~> (pc = "exited")
  /\ [](EndedUncancelled =>
          /\ attempted = dates
          /\ \A d \in Range(dates) : Recorded(progress, d)
          /\ (dates # <<>> /\ saveErr = "") =>
               (file = progress /\ \A d \in Range(dates) : Recorded(file, d)))

\* a resumed run ended uncancelled: its list was shorter than the range, and
\* of its dates one was processed and one failed
C34_Witness ==
  /\ EndedUncancelled
  /\ flags.resume
  /\ Len(dates) = 2
  /\ Len(progress0.ProcessedDates) = 0
  /\ dates[1] \in FailedKeys(progress0)
  /\ dates[1] \in Processed(progress)
  /\ dates[2] \in FailedKeys(progress)
  /\ dates[2] \notin Processed(progress)

\* a resumed run over a list the filter has shortened
FilteredListDone ==
  /\ EndedUncancelled
  /\ flags.resume
  /\ Len(dates) = 1
  /\ progress0.ProcessedDates # <<>>
  /\ Recorded(progress, dates[1])

----------------------------------------------------------------------------
(* C35 - no date twice on the processed list *)

\* C35: in every reachable state, whatever runs, signals and kills came
\* before, the processed list of the file and the one in memory hold no
\* date more than once.
C35_ProcessedListHasNoDuplicate ==
  \A p \in Snapshots : NoDuplicates(p.ProcessedDates)

\* a resumed run after a run that processed the first date and was killed:
\* the file holds both dates, the first from the earlier run
C35_Witness ==
  /\ IsSnapshot(file)
  /\ flags # None
  /\ flags.resume
  /\ IsSnapshot(progress0)
  /\ Len(progress0.ProcessedDates) = 1
  /\ Len(dates) = 1
  /\ attempted = dates
  /\ file.ProcessedDates = Append(progress0.ProcessedDates, dates[1])
  /\ DateLess(progress0.LastProcessedDate, dates[1])

----------------------------------------------------------------------------
(* C36 - what a failed attempt changes *)

\* C36: the step in which the day in flight fails sets the failed-map entry
\* of that date to the error and changes nothing else of the progress: the
\* processed list, the last-processed date, both totals, the range, the
\* group, the start time and the entries of all other dates stay as they
\* were; the file is not written in that step.
C36_FailureTouchesOneEntry ==
  [][ AttemptFailed =>
        /\ progress'.ProcessedDates = progress.ProcessedDates
        /\ progress'.LastProcessedDate = progress.LastProcessedDate
        /\ progress'.TotalMessages = progress.TotalMessages
        /\ progress'.TotalEpisodes = progress.TotalEpisodes
        /\ progress'.StartDate = progress.StartDate
        /\ progress'.EndDate = progress.EndDate
        /\ progress'.GroupJID = progress.GroupJID
        /\ progress'.StartTime = progress.StartTime
        /\ FailedKeys(progress') = FailedKeys(progress) \cup {dates[i]}
        /\ progress'.FailedDates[dates[i]] = dayErr'
        /\ \A d \in FailedKeys(progress) \ {dates[i]} :
             progress'.FailedDates[d] = progress.FailedDates[d]
        /\ file' = file
    ]_vars

\* the second date has failed after the first one had: the failed-map holds
\* both entries, each with its own error
C36_Witness ==
  /\ pc = "save"
  /\ dayErr # NoErr
  /\ i = 2
  /\ FailedKeys(progress) = {dates[1], dates[2]}
  /\ progress.FailedDates[dates[2]] = dayErr
  /\ progress.FailedDates[dates[1]] # dayErr

\* a date failed after a date with messages was processed: the totals are
\* those of the processed date
FailedAfterCounted ==
  /\ pc = "save"
  /\ dayErr # NoErr
  /\ progress.TotalMessages = MaxMsgs
  /\ Len(progress.ProcessedDates) = 1

----------------------------------------------------------------------------
(* C37 - what a resumed run takes from the checkpoint *)

\* the process starts with --resume on a checkpoint that can be loaded
ResumeStarts ==
  /\ pc = "idle"
  /\ pc' # "idle"
  /\ flags'.resume
  /\ IsSnapshot(file)

\* group, range and start time of the two checkpoints are the same
SameHeader(p, q) ==
  /\ p.GroupJID = q.GroupJID
  /\ p.StartDate = q.StartDate
  /\ p.EndDate = q.EndDate
  /\ p.StartTime = q.StartTime

\* C37: a run started with --resume holds the loaded checkpoint as its
\* progress, with the group, the range and the start time of the file
\* whatever --group-jid, --start-date and --end-date say, and its date list
\* is the range of the checkpoint less the processed dates; no later step of
\* the run changes group, range or start time, in memory or in the file it
\* writes.
C37_ResumeTakesHeaderFromCheckpoint ==
  [][ /\ ResumeStarts =>
           /\ progress' = file
           /\ exit' # "error" =>
                dates' = filterProcessedDates(
                           generateDateRange(file.StartDate, file.EndDate).dates,
                           file.ProcessedDates)
      /\ (pc # "idle" /\ flags.resume /\ IsSnapshot(progress0)) =>
           /\ pc' # "idle" => SameHeader(progress', progress0)
           /\ IsSnapshot(file') => SameHeader(file', progress0)
    ]_vars

\* a resume given another group flag and a one-day range: it lists the dates
\* the checkpoint's range has left, and its progress is the file
C37_Witness ==
  /\ pc = "exited"
  /\ exit = "ok"
  /\ flags.resume
  /\ flags.startDate = Today
  /\ flags.endDate = Today
  /\ progress = file
  /\ progress.StartDate = FirstDay
  /\ dates # <<>>
  /\ dates[1] = FirstDay

\* a resume given no group has saved a date under the group of the checkpoint
ResumeSavedUnderCheckpointGroup ==
  /\ pc = "delay"
  /\ flags.resume
  /\ flags.groupJID = ""
  /\ saveErr = ""
  /\ file.GroupJID = "G1"
  /\ file # progress0

----------------------------------------------------------------------------
(* C38 - a dry run *)

\* the process starts with --dry-run
DryRunStarts ==
  /\ pc = "idle"
  /\ pc' # "idle"
  /\ flags'.dryRun

\* p is as loadOrCreateProgress made it for the flags f and the file fl
AsLoaded(p, f, fl) ==
  IF f.resume
    THEN p = fl
    ELSE /\ p.ProcessedDates = <<>>
         /\ p.FailedDates = EmptyMap
         /\ p.LastProcessedDate = EmptyStr
         /\ p.TotalMessages = 0
         /\ p.TotalEpisodes = 0

\* C38: a run started with --dry-run, fresh or with --resume, returns from
\* its start-up: no date is attempted, no gateway call is made, the progress
\* in memory is as it was loaded or created, and the file is as it was
\* before the run, then and when the process is gone.
C38_DryRunChangesNothing ==
  [][ /\ DryRunStarts =>
           /\ pc' = "exited"
           /\ attempted' = <<>>
           /\ calls' = <<>>
           /\ msgCount' = 0
           /\ file' = file
           /\ progress' = progress0'
           /\ IsSnapshot(progress') => AsLoaded(progress', flags', file)
      /\ (pc # "idle" /\ flags.dryRun) =>
           /\ pc = "exited"
           /\ pc' = "idle"
           /\ file' = file
    ]_vars

\* a fresh dry run over the whole window while the file holds a checkpoint
\* with a processed date: the dates are listed, the file is untouched
C38_Witness ==
  /\ pc = "exited"
  /\ exit = "ok"
  /\ flags.dryRun
  /\ ~flags.resume
  /\ Len(dates) = MaxSpan
  /\ IsSnapshot(file)
  /\ file.ProcessedDates # <<>>
  /\ progress.ProcessedDates = <<>>

\* a dry run with --resume lists the dates that are left
DryResumeListsRemaining ==
  /\ pc = "exited"
  /\ exit = "ok"
  /\ flags.dryRun
  /\ flags.resume
  /\ dates # <<>>
  /\ Len(dates) < MaxSpan
  /\ progress = file

----------------------------------------------------------------------------
(* C39 - a fresh run and the checkpoint it finds *)

\* a run without --resume is under way, past its start-up checks
FreshRun == pc # "idle" /\ ~flags.resume /\ IsSnapshot(progress0)

\* what p records comes from this run alone
OwnRecordsOnly(p) ==
  /\ Processed(p) \subseteq Range(attempted)
  /\ FailedKeys(p) \subseteq Range(attempted)
  /\ TotalsMatch(p, ledger)

EarlierCheckpointGone ==
  /\ FreshRun
  /\ runs = 2
  /\ saveErr = ""
  /\ pc \in {"delay", "exited"}
  /\ file = progress
  /\ file.StartTime = 2
  /\ Processed(file) = {}
  /\ file.TotalMessages = 0
  /\ FailedKeys(file) # {}

====
